---------------------------- MODULE Spec2Model ----------------------------
(***************************************************************************)
(* A model of pycytominer's normalize (src/pycytominer/normalize.py).      *)
(*                                                                         *)
(* One call of normalize is one behaviour: pc walks through the            *)
(* statements of the function, a fault ends the call in pc = "raised", a   *)
(* normal end is pc = "done".  An argument of the call is immutable and    *)
(* independent of the others, so it is given its value (from a small set)  *)
(* by the step that first reads it; until then it is Unread.               *)
(*                                                                         *)
(* A DataFrame is a record [index, columns, data]: the row labels, the     *)
(* column labels and the cells, row-major; all three are sequences, so     *)
(* repeated row labels and repeated column labels can be represented.      *)
(***************************************************************************)
EXTENDS Integers, Sequences, FiniteSets, TLC

VARIABLES
    pc,                  \* position in normalize
    profiles,            \* the loaded table (line 60)
    method,              \* the method argument, rebound to its lower-case (line 63)
    scaler,              \* the scaler object chosen by method (lines 68-75)
    features,            \* the features argument, rebound if "infer" (lines 77-78)
    meta_features,       \* the meta_features argument, rebound if "infer" (lines 82-83)
    feature_df,          \* lines 81 and 95-99
    meta_df,             \* line 85
    samples,             \* the samples argument
    fit_input,           \* the frame handed to scaler.fit (lines 89, 92)
    fitted_scaler,       \* lines 89, 92
    normalized,          \* line 101
    output_args,         \* output_file, compression_options, float_format
    output_calls,        \* the calls made to cyto_utils.output, in order
    returned,            \* the value normalize returns
    fault                \* the exception that left normalize, or "none"

vars == <<pc, profiles, method, scaler, features, meta_features, feature_df,
          meta_df, samples, fit_input, fitted_scaler, normalized, output_args,
          output_calls, returned, fault>>

(***************************************************************************)
(* Bounds and input domains.                                               *)
(***************************************************************************)
MaxRows == 3

\* A value that is not there yet: an argument not read, a local not bound,
\* the None a Python function returns without a return statement.
Unread == [unset |-> "unread"]
Unbound == [unset |-> "unbound"]
None == [unset |-> "None"]

\* The columns of the test table (tests/test_normalize.py:5-23), without z, zz.
Columns == <<"Metadata_plate", "Metadata_treatment", "x", "y">>

\* Rows 1, 3 and 8 of the test table.
RowPool == { <<"a", "drug", 1, 3>>, <<"a", "control", 8, 7>>, <<"b", "control", 1, 1>> }

\* Row labels: 0..n-1 (reset_index), the same reversed (not sorted), and
\* labels that repeat (0, 0, 1, 1, ...: two frames concatenated).
IndexKinds == {"range", "reversed", "repeated"}

IndexOf(kind, n) ==
    [i \in 1..n |-> CASE kind = "range" -> i - 1
                      [] kind = "reversed" -> n - i
                      [] OTHER -> (i - 1) \div 2]

Frame(index, columns, data) == [index |-> index, columns |-> columns, data |-> data]

Tables ==
    { Frame(IndexOf(k, Len(rows)), Columns, rows) :
        k \in IndexKinds, rows \in UNION { [1..n -> RowPool] : n \in 0..MaxRows } }

(***************************************************************************)
(* Strings that the code takes apart are sequences of characters.          *)
(***************************************************************************)
ToLower ==
    [A |-> "a", B |-> "b", C |-> "c", D |-> "d", E |-> "e", F |-> "f", G |-> "g", H |-> "h", I |-> "i", J |-> "j", K |-> "k", L |-> "l", M |-> "m", N |-> "n", O |-> "o", P |-> "p", Q |-> "q", R |-> "r", S |-> "s", T |-> "t", U |-> "u", V |-> "v", W |-> "w", X |-> "x", Y |-> "y", Z |-> "z"]

LowerChar(c) == IF c \in DOMAIN ToLower THEN ToLower[c] ELSE c

\* Lower, with the lower-casing forgotten: the method is compared as given.
LowerUnchanged(s) == s

\* str.lower (line 63)
Lower(s) == [i \in 1..Len(s) |-> LowerChar(s[i])]

standardize == <<"s", "t", "a", "n", "d", "a", "r", "d", "i", "z", "e">>
robustize == <<"r", "o", "b", "u", "s", "t", "i", "z", "e">>
mad_robustize == <<"m", "a", "d", "_", "r", "o", "b", "u", "s", "t", "i", "z", "e">>
spherize == <<"s", "p", "h", "e", "r", "i", "z", "e">>

\* line 65
avail_methods == <<standardize, robustize, mad_robustize, spherize>>

\* The method arguments tried: the four names in several casings, and
\* strings that are none of them (a misspelling, a name with a trailing
\* space, the empty string).
Methods ==
    { standardize,
      <<"S", "T", "A", "N", "D", "A", "R", "D", "I", "Z", "E">>,
      <<"R", "o", "b", "u", "s", "t", "i", "z", "e">>,
      mad_robustize,
      <<"M", "A", "D", "_", "R", "o", "b", "u", "s", "t", "i", "z", "e">>,
      spherize,
      <<"S", "p", "h", "e", "r", "i", "Z", "E">>,
      <<"s", "t", "a", "n", "d", "a", "r", "d", "i", "s", "e">>,
      <<"s", "p", "h", "e", "r", "i", "z", "e", " ">>,
      <<>> }

\* spherize_center, spherize_method (lines 25-26)
SpherizeOptions == { <<TRUE, "ZCA-cor">>, <<FALSE, "ZCA">> }

\* A column selection argument is a string ("infer", "none") or a list of names.
Str(s) == [kind |-> "str", str |-> s]
List(l) == [kind |-> "list", list |-> l]

FeatureSpecs ==
    { Str("infer"), List(<<"x", "y">>), List(<<"y", "x">>), List(<<"x">>), List(<<"x", "w">>) }

MetaSpecs ==
    { Str("infer"), Str("none"), List(<<>>), List(<<"Metadata_treatment", "Metadata_plate">>),
      List(<<"Metadata_treatment", "x">>), List(<<"Metadata_batch">>) }

\* The samples argument: "all", or a query string, kept with the comparison
\* DataFrame.query parses out of it.
QueryStr(expr, col, op, val) == [expr |-> expr, col |-> col, op |-> op, val |-> val]
All == [expr |-> "all"]

SampleSpecs ==
    { All,
      QueryStr("Metadata_treatment == 'control'", "Metadata_treatment", "==", "control"),
      QueryStr("Metadata_plate != 'c'", "Metadata_plate", "!=", "c"),
      QueryStr("Metadata_treatment == 'placebo'", "Metadata_treatment", "==", "placebo"),
      QueryStr("Metadata_batch == '1'", "Metadata_batch", "==", "1") }

\* output_file, compression_options, float_format
OutputArgs ==
    { [output_file |-> "none", compression_options |-> "gzip", float_format |-> "%.3g"],
      [output_file |-> "out_normalized.csv", compression_options |-> "None", float_format |-> "None"],
      [output_file |-> "out_normalized.csv", compression_options |-> "gzip", float_format |-> "%.3g"] }

(***************************************************************************)
(* pandas: the DataFrame operations normalize uses.                        *)
(***************************************************************************)
Range(s) == { s[i] : i \in DOMAIN s }

Iota(n) == [i \in 1..n |-> i]

ColPos(df, name) == CHOOSE j \in DOMAIN df.columns : df.columns[j] = name

\* df.loc[:, names] for a list of names raises KeyError unless every name is
\* a column; df.loc[:, "name"] for a string raises KeyError unless it is one.
LocRaises(df, spec) ==
    IF spec.kind = "list"
    THEN \E i \in DOMAIN spec.list : spec.list[i] \notin Range(df.columns)
    ELSE spec.str \notin Range(df.columns)

\* df.loc[:, names]: every row, the named columns in the order of names.
Loc(df, names) ==
    Frame(df.index, names,
          [i \in DOMAIN df.data |-> [j \in DOMAIN names |-> df.data[i][ColPos(df, names[j])]]])

\* The rows at the given positions, in that order, under their labels.
Take(df, positions) ==
    Frame([k \in DOMAIN positions |-> df.index[positions[k]]], df.columns,
          [k \in DOMAIN positions |-> df.data[positions[k]]])

\* df.query(expr) raises when expr names a column df does not have.
QueryRaises(df, q) == q.col \notin Range(df.columns)

RowMatches(df, q, i) ==
    LET cell == df.data[i][ColPos(df, q.col)]
    IN  IF q.op = "==" THEN cell = q.val ELSE cell # q.val

\* DfQuery, with the first row of the table never looked at.
DfQuerySkipFirst(df, q) ==
    Take(df, SelectSeq(Iota(Len(df.data)), LAMBDA i : i > 1 /\ RowMatches(df, q, i)))

\* df.query(expr): the rows for which expr is true, in the order of df.
DfQuery(df, q) ==
    Take(df, SelectSeq(Iota(Len(df.data)), LAMBDA i : RowMatches(df, q, i)))

\* The positions of the rows of right that carry the label of row i of left.
Matches(left, right, i) ==
    SelectSeq(Iota(Len(right.index)), LAMBDA j : right.index[j] = left.index[i])

\* The pairs (row of left, row of right) of an inner join on the row labels:
\* every pairing of rows with equal labels, in the order of left.
RECURSIVE JoinPairs(_, _, _)
JoinPairs(left, right, i) ==
    IF i > Len(left.index) THEN <<>>
    ELSE LET m == Matches(left, right, i)
         IN  [k \in DOMAIN m |-> <<i, m[k]>>] \o JoinPairs(left, right, i + 1)

\* A column name both sides have gets the suffix _x on the left and _y on
\* the right (merge's default suffixes).
MergedColumns(left, right) ==
    [j \in DOMAIN left.columns |->
        IF left.columns[j] \in Range(right.columns) THEN left.columns[j] \o "_x"
        ELSE left.columns[j]]
    \o
    [j \in DOMAIN right.columns |->
        IF right.columns[j] \in Range(left.columns) THEN right.columns[j] \o "_y"
        ELSE right.columns[j]]

\* Merge, with the two frames the other way round: right.merge(left, ...).
MergeRightFirst(left, right) ==
    LET pairs == JoinPairs(right, left, 1)
    IN  Frame([k \in DOMAIN pairs |-> right.index[pairs[k][1]]],
              MergedColumns(right, left),
              [k \in DOMAIN pairs |-> right.data[pairs[k][1]] \o left.data[pairs[k][2]]])

\* left.merge(right, left_index=True, right_index=True)
Merge(left, right) ==
    LET pairs == JoinPairs(left, right, 1)
    IN  Frame([k \in DOMAIN pairs |-> left.index[pairs[k][1]]],
              MergedColumns(left, right),
              [k \in DOMAIN pairs |-> left.data[pairs[k][1]] \o right.data[pairs[k][2]]])

(***************************************************************************)
(* cyto_utils.infer_cp_features: the columns named Metadata_... are the    *)
(* metadata, the others the features, each in the order of the table.      *)
(***************************************************************************)
MetadataColumns == {"Metadata_plate", "Metadata_treatment", "Metadata_batch"}

infer_cp_features(df, metadata) ==
    SelectSeq(df.columns, LAMBDA c : (c \in MetadataColumns) = metadata)

(***************************************************************************)
(* The scalers: sklearn's StandardScaler and RobustScaler, and             *)
(* pycytominer.operations' RobustMAD and Spherize.  fit returns the fitted *)
(* parameters, exactly, as integers: sums for the mean and the variance,   *)
(* 4 x the quartiles.  A transformed cell is the exact quotient, kept as   *)
(* numerator and denominator; what a scaler does with a denominator of 0   *)
(* is its own policy and is not applied here.                              *)
(***************************************************************************)
RECURSIVE SumSeq(_)
SumSeq(s) == IF s = <<>> THEN 0 ELSE Head(s) + SumSeq(Tail(s))

Abs(a) == IF a < 0 THEN -a ELSE a

ColumnOf(X, j) == [i \in DOMAIN X.data |-> X.data[i][j]]

\* The k-th smallest of a non-empty sequence of numbers.
SortedAt(vals, k) ==
    CHOOSE v \in Range(vals) :
        /\ Cardinality({ i \in DOMAIN vals : vals[i] < v }) < k
        /\ k <= Cardinality({ i \in DOMAIN vals : vals[i] <= v })

\* 4 x the q/4 quantile (q = 1, 2, 3) of a non-empty sequence, by linear
\* interpolation between the two neighbouring order statistics.
Quantile4(vals, q) ==
    LET pos == (Len(vals) - 1) * q
        lo == pos \div 4
        r == pos % 4
    IN  IF r = 0 THEN 4 * SortedAt(vals, lo + 1)
        ELSE (4 - r) * SortedAt(vals, lo + 1) + r * SortedAt(vals, lo + 2)

\* fit refuses a frame with no rows.
FitRaises(sc, X) == Len(X.data) = 0

StandardStats(vals) ==
    [n |-> Len(vals), sum |-> SumSeq(vals), sumsq |-> SumSeq([i \in DOMAIN vals |-> vals[i] * vals[i]])]

RobustStats(vals) ==
    [center4 |-> Quantile4(vals, 2), iqr4 |-> Quantile4(vals, 3) - Quantile4(vals, 1)]

MadStats(vals) ==
    LET c4 == Quantile4(vals, 2)
    IN  [center4 |-> c4, mad16 |-> Quantile4([i \in DOMAIN vals |-> Abs(4 * vals[i] - c4)], 2)]

SpherizeStats(sc, X) ==
    [center |-> sc.center, method |-> sc.method, n |-> Len(X.data),
     sums |-> [j \in DOMAIN X.columns |-> SumSeq(ColumnOf(X, j))],
     cross |-> [a \in DOMAIN X.columns |-> [b \in DOMAIN X.columns |->
                  SumSeq([i \in DOMAIN X.data |-> X.data[i][a] * X.data[i][b]])]]]

\* scaler.fit(X), for X with at least one row.
Fit(sc, X) ==
    [kind |-> sc.kind, width |-> Len(X.columns),
     stats |-> CASE sc.kind = "StandardScaler" ->
                      [j \in DOMAIN X.columns |-> StandardStats(ColumnOf(X, j))]
                 [] sc.kind = "RobustScaler" ->
                      [j \in DOMAIN X.columns |-> RobustStats(ColumnOf(X, j))]
                 [] sc.kind = "RobustMAD" ->
                      [j \in DOMAIN X.columns |-> MadStats(ColumnOf(X, j))]
                 [] OTHER -> SpherizeStats(sc, X)]

\* transform refuses a frame of another width than the one fitted.
TransformRaises(fitted, X) == Len(X.columns) # fitted.width

\* One transformed cell: row i, column j of X.
TransformCell(fitted, X, i, j) ==
    LET x == X.data[i][j]
        st == fitted.stats
    IN  CASE fitted.kind = "StandardScaler" ->
               \* (x - mean) / std = (n x - sum) / sqrt(n sumsq - sum^2)
               [num |-> st[j].n * x - st[j].sum,
                den2 |-> st[j].n * st[j].sumsq - st[j].sum * st[j].sum]
          [] fitted.kind = "RobustScaler" ->
               \* (x - median) / IQR
               [num |-> 4 * x - st[j].center4, den |-> st[j].iqr4]
          [] fitted.kind = "RobustMAD" ->
               \* (x - median) / max(1.4826 MAD, epsilon)
               [num |-> 40000 * (4 * x - st[j].center4), den |-> 14826 * st[j].mad16,
                floored |-> st[j].mad16 = 0]
          [] OTHER ->
               \* column j of (row - mean) W, W the whitening matrix of the
               \* covariance (ZCA) or correlation (ZCA-cor) of the fitted rows
               [row |-> [c \in DOMAIN X.columns |->
                           IF st.center THEN st.n * X.data[i][c] - st.sums[c]
                           ELSE X.data[i][c]],
                column |-> j, whitening |-> st]

\* scaler.transform(X): an array of the shape of X.
Transform(fitted, X) ==
    [i \in DOMAIN X.data |-> [j \in DOMAIN X.columns |-> TransformCell(fitted, X, i, j)]]

(***************************************************************************)
(* normalize, statement by statement.                                      *)
(***************************************************************************)
Init ==
    /\ pc = "load"
    /\ method \in Methods
    /\ profiles = Unread
    /\ features = Unread
    /\ meta_features = Unread
    /\ samples = Unread
    /\ output_args = Unread
    /\ scaler = Unbound
    /\ feature_df = Unbound
    /\ meta_df = Unbound
    /\ fit_input = Unbound
    /\ fitted_scaler = Unbound
    /\ normalized = Unbound
    /\ output_calls = <<>>
    /\ returned = Unbound
    /\ fault = "none"

\* Raise, with the exception caught and noted, and the run going on to its end.
RaiseAndGoOn(e) ==
    /\ fault' = e
    /\ pc' = "output"

\* raise: the exception leaves normalize, nothing else changes.
Raise(e) ==
    /\ fault' = e
    /\ pc' = "raised"

\* profiles = load_profiles(profiles)
LoadStep ==
    /\ pc = "load"
    /\ profiles' \in Tables
    /\ pc' = "method"
    /\ UNCHANGED <<method, scaler, features, meta_features, feature_df, meta_df, samples,
                   fit_input, fitted_scaler, normalized, output_args, output_calls,
                   returned, fault>>

\* The if/elif chain over the lower-cased method.
ScalerFor(m, opts) ==
    CASE m = standardize -> [kind |-> "StandardScaler"]
      [] m = robustize -> [kind |-> "RobustScaler"]
      [] m = mad_robustize -> [kind |-> "RobustMAD"]
      [] m = spherize -> [kind |-> "Spherize", center |-> opts[1], method |-> opts[2]]

\* method = method.lower(); the assert; the choice of the scaler
MethodStep ==
    /\ pc = "method"
    /\ method' = Lower(method)
    /\ IF method' \notin Range(avail_methods)
       THEN /\ Raise("AssertionError")
            /\ UNCHANGED scaler
       ELSE /\ \E opts \in IF method' = spherize THEN SpherizeOptions ELSE {Unread} :
                 scaler' = ScalerFor(method', opts)
            /\ pc' = "features"
            /\ UNCHANGED fault
    /\ UNCHANGED <<profiles, features, meta_features, feature_df, meta_df, samples,
                   fit_input, fitted_scaler, normalized, output_args, output_calls, returned>>

\* The list a column selection argument stands for.
Resolve(spec, df, metadata) ==
    IF spec = Str("infer") THEN List(infer_cp_features(df, metadata)) ELSE spec

\* features = infer_cp_features(profiles) if "infer"; feature_df = profiles.loc[:, features]
FeaturesStep ==
    /\ pc = "features"
    /\ \E f \in FeatureSpecs : features' = Resolve(f, profiles, FALSE)
    /\ IF LocRaises(profiles, features')
       THEN /\ Raise("KeyError")
            /\ UNCHANGED feature_df
       ELSE /\ feature_df' = Loc(profiles, features'.list)
            /\ pc' = "meta"
            /\ UNCHANGED fault
    /\ UNCHANGED <<profiles, method, scaler, meta_features, meta_df, samples, fit_input,
                   fitted_scaler, normalized, output_args, output_calls, returned>>

\* meta_features = infer_cp_features(profiles, metadata=True) if "infer";
\* meta_df = profiles.loc[:, meta_features]
MetaStep ==
    /\ pc = "meta"
    /\ \E m \in MetaSpecs : meta_features' = Resolve(m, profiles, TRUE)
    /\ IF LocRaises(profiles, meta_features')
       THEN /\ Raise("KeyError")
            /\ UNCHANGED meta_df
       ELSE /\ meta_df' = Loc(profiles, meta_features'.list)
            /\ pc' = "fit"
            /\ UNCHANGED fault
    /\ UNCHANGED <<profiles, method, scaler, features, feature_df, samples, fit_input,
                   fitted_scaler, normalized, output_args, output_calls, returned>>

\* FitInput, with the samples argument ignored: fit always gets feature_df.
FitInputAllRows(df, fdf, feats, s) == fdf

\* FitInput, with a query that selects no row falling back to every row.
FitInputOrAll(df, fdf, feats, s) ==
    IF s = All \/ DfQuery(df, s).data = <<>> THEN fdf ELSE Loc(DfQuery(df, s), feats)

\* The frame handed to scaler.fit: feature_df, or the feature columns of
\* the rows the query selects.
FitInput(df, fdf, feats, s) ==
    IF s = All THEN fdf ELSE Loc(DfQuery(df, s), feats)

\* fitted_scaler = scaler.fit(...)
FitStep ==
    /\ pc = "fit"
    /\ samples' \in SampleSpecs
    /\ IF samples' # All /\ QueryRaises(profiles, samples')
       THEN /\ Raise("UndefinedVariableError")
            /\ UNCHANGED <<fit_input, fitted_scaler>>
       ELSE /\ fit_input' = FitInput(profiles, feature_df, features.list, samples')
            /\ IF FitRaises(scaler, fit_input')
               THEN /\ Raise("ValueError")
                    /\ UNCHANGED fitted_scaler
               ELSE /\ fitted_scaler' = Fit(scaler, fit_input')
                    /\ pc' = "transform"
                    /\ UNCHANGED fault
    /\ UNCHANGED <<profiles, method, scaler, features, meta_features, feature_df, meta_df,
                   normalized, output_args, output_calls, returned>>

\* feature_df = pd.DataFrame(fitted_scaler.transform(feature_df), columns=..., index=...)
TransformStep ==
    /\ pc = "transform"
    /\ IF TransformRaises(fitted_scaler, feature_df)
       THEN /\ Raise("ValueError")
            /\ UNCHANGED feature_df
       ELSE /\ feature_df' = Frame(feature_df.index, feature_df.columns,
                                   Transform(fitted_scaler, feature_df))
            /\ pc' = "merge"
            /\ UNCHANGED fault
    /\ UNCHANGED <<profiles, method, scaler, features, meta_features, meta_df, samples,
                   fit_input, fitted_scaler, normalized, output_args, output_calls, returned>>

\* normalized = meta_df.merge(feature_df, left_index=True, right_index=True)
MergeStep ==
    /\ pc = "merge"
    /\ normalized' = Merge(meta_df, feature_df)
    /\ pc' = "output"
    /\ UNCHANGED <<profiles, method, scaler, features, meta_features, feature_df, meta_df,
                   samples, fit_input, fitted_scaler, output_args, output_calls, returned,
                   fault>>

\* One call of cyto_utils.output.
OutputCall(df, o) ==
    [df |-> df, output_filename |-> o.output_file,
     compression_options |-> o.compression_options, float_format |-> o.float_format]

\* OutputStep, with output called whether or not a destination is given.
OutputStepAlwaysWrites ==
    /\ pc = "output"
    /\ output_args' \in OutputArgs
    /\ output_calls' = Append(output_calls, OutputCall(normalized, output_args'))
    /\ returned' = IF output_args'.output_file # "none" THEN None ELSE normalized
    /\ pc' = "done"
    /\ UNCHANGED <<profiles, method, scaler, features, meta_features, feature_df, meta_df,
                   samples, fit_input, fitted_scaler, normalized, fault>>

\* if output_file != "none": output(...) else: return normalized
OutputStep ==
    /\ pc = "output"
    /\ output_args' \in OutputArgs
    /\ IF output_args'.output_file # "none"
       THEN /\ output_calls' = Append(output_calls, OutputCall(normalized, output_args'))
            /\ returned' = None
       ELSE /\ returned' = normalized
            /\ UNCHANGED output_calls
    /\ pc' = "done"
    /\ UNCHANGED <<profiles, method, scaler, features, meta_features, feature_df, meta_df,
                   samples, fit_input, fitted_scaler, normalized, fault>>

Next ==
    \/ LoadStep
    \/ MethodStep
    \/ FeaturesStep
    \/ MetaStep
    \/ FitStep
    \/ TransformStep
    \/ MergeStep
    \/ OutputStep

Spec == Init /\ [][Next]_vars

(***************************************************************************)
(* Properties.                                                             *)
(***************************************************************************)
Fitted == {"transform", "merge", "output", "done"}
Transformed == {"merge", "output", "done"}
Merged == {"output", "done"}

\* The feature columns of the input table, as normalize reads them.
InputFeatures == Loc(profiles, features.list)

\* The positions of the rows of the input table the samples argument selects.
Selected ==
    { i \in DOMAIN profiles.data : samples = All \/ RowMatches(profiles, samples, i) }

\* C1: the output has the row labels of the input, in the same order (so
\* also as many rows), whatever the labels are.
C1_RowsPreserved ==
    pc \in Merged => normalized.index = profiles.index

\* The table t with the feature cells of row i replaced by those of r.
WithFeatureCells(t, i, r) ==
    [t EXCEPT !.data[i] = [j \in DOMAIN t.columns |->
                             IF t.columns[j] \in Range(features.list) THEN r[j] ELSE @[j]]]

\* C2: fit sees the feature cells of the selected rows and of no other row
\* (changing the feature cells of a row that is not selected leaves the
\* fitted parameters as they are), transform is applied to every row of the
\* table, and every row of the table is in the output with its transformed
\* feature cells.
C2_FitOnSubsetTransformAll ==
    /\ pc \in Fitted =>
         /\ Len(fit_input.data) = Cardinality(Selected)
         /\ \A k \in DOMAIN fit_input.data :
              \E i \in Selected : /\ fit_input.data[k] = InputFeatures.data[i]
                                  /\ fit_input.index[k] = profiles.index[i]
         /\ \A i \in DOMAIN profiles.data \ Selected : \A r \in RowPool :
              LET t == WithFeatureCells(profiles, i, r)
              IN  Fit(scaler, FitInput(t, Loc(t, features.list), features.list, samples))
                    = fitted_scaler
    /\ pc \in Transformed =>
         /\ feature_df.index = profiles.index
         /\ \A i \in DOMAIN profiles.data : \A j \in DOMAIN features.list :
              feature_df.data[i][j] = TransformCell(fitted_scaler, InputFeatures, i, j)
    /\ pc \in Merged =>
         \A i \in DOMAIN profiles.data : \E k \in DOMAIN normalized.data :
              /\ normalized.index[k] = profiles.index[i]
              /\ SubSeq(normalized.data[k], Len(meta_df.columns) + 1, Len(normalized.data[k]))
                   = [j \in DOMAIN features.list |->
                        TransformCell(fitted_scaler, InputFeatures, i, j)]

\* A run that fits on a part of the rows only, has transformed every row
\* and has returned.
C2_Witness ==
    /\ pc = "done"
    /\ Selected # {}
    /\ Selected # DOMAIN profiles.data
    /\ Len(feature_df.data) = Len(profiles.data)

\* C3: every metadata column is in the output under its name, with the
\* cells it has in the input, row for row (stated for metadata and feature
\* lists that share no name, as the data model has them).
C3_MetadataUnchanged ==
    (pc \in Merged /\ Range(meta_features.list) \cap Range(features.list) = {}) =>
        \A m \in DOMAIN meta_features.list :
            LET c == meta_features.list[m]
            IN  /\ c \in Range(normalized.columns)
                /\ Len(normalized.data) = Len(profiles.data)
                /\ \A i \in DOMAIN profiles.data :
                     normalized.data[i][ColPos(normalized, c)]
                       = profiles.data[i][ColPos(profiles, c)]

Uppers == <<"A", "B", "C", "D", "E", "F", "G", "H", "I", "J", "K", "L", "M", "N", "O", "P", "Q", "R", "S", "T", "U", "V", "W", "X", "Y", "Z">>
Lowers == <<"a", "b", "c", "d", "e", "f", "g", "h", "i", "j", "k", "l", "m", "n", "o", "p", "q", "r", "s", "t", "u", "v", "w", "x", "y", "z">>

\* The same character, or the same letter in the two cases.
SameLetter(c, d) ==
    c = d \/ \E k \in DOMAIN Uppers : {c, d} = {Uppers[k], Lowers[k]}

SameIgnoringCase(a, b) ==
    Len(a) = Len(b) /\ \A i \in DOMAIN a : SameLetter(a[i], b[i])

\* C4: a method that is, letter case aside, none of the four names ends
\* normalize at once with the assertion's fault, before any column is
\* selected, any row is selected, anything is fitted, transformed or
\* written; a method that is one of the four names in any letter case is
\* accepted and chooses that name's scaler.
C4_UnknownMethodFailsFast ==
    /\ [][pc = "method" =>
            IF \E k \in DOMAIN avail_methods : SameIgnoringCase(method, avail_methods[k])
            THEN /\ pc' = "features"
                 /\ fault' = "none"
                 /\ scaler'.kind =
                      CASE SameIgnoringCase(method, standardize) -> "StandardScaler"
                        [] SameIgnoringCase(method, robustize) -> "RobustScaler"
                        [] SameIgnoringCase(method, mad_robustize) -> "RobustMAD"
                        [] SameIgnoringCase(method, spherize) -> "Spherize"
            ELSE /\ pc' = "raised"
                 /\ fault' = "AssertionError"
                 /\ scaler' = Unbound]_vars
    /\ [](fault = "AssertionError" =>
            /\ pc = "raised"
            /\ features = Unread /\ meta_features = Unread /\ samples = Unread
            /\ feature_df = Unbound /\ meta_df = Unbound
            /\ fit_input = Unbound /\ fitted_scaler = Unbound
            /\ normalized = Unbound /\ returned = Unbound
            /\ output_calls = <<>>)

\* normalize has ended on the assertion.
C4_Witness ==
    pc = "raised" /\ fault = "AssertionError" /\ method \notin Range(avail_methods)

\* C5: with meta_features "none", on a table with no column of that name,
\* the selection of the metadata columns does not fault.
C5_MetaNoneAccepted ==
    (meta_features = Str("none") /\ "none" \notin Range(profiles.columns)) => fault # "KeyError"

\* C6: a query no row satisfies ends normalize with fit's fault, for every
\* scaler: nothing is fitted, transformed, merged, returned or written.
C6_EmptySubsetFaults ==
    (/\ samples # Unread
     /\ samples # All
     /\ ~QueryRaises(profiles, samples)
     /\ Selected = {})
    => /\ pc = "raised"
       /\ fault = "ValueError"
       /\ fit_input.data = <<>>
       /\ fitted_scaler = Unbound
       /\ normalized = Unbound
       /\ returned = Unbound
       /\ output_calls = <<>>

\* A query no row of a table with rows satisfies, under the MAD scaler.
C6_Witness ==
    /\ samples # Unread
    /\ samples # All
    /\ ~QueryRaises(profiles, samples)
    /\ Selected = {}
    /\ profiles.data # <<>>
    /\ scaler.kind = "RobustMAD"
    /\ fault = "ValueError"

\* C7: with a query every row satisfies, fit gets the frame it gets with
\* samples "all" (the same rows in the same order), so the fitted
\* parameters, the transformed features and the merged table are those of
\* the run with "all".
C7_AllEqualsAlwaysTrue ==
    (/\ pc \in Fitted
     /\ samples # All
     /\ Selected = DOMAIN profiles.data)
    => LET allInput == FitInput(profiles, InputFeatures, features.list, All)
           allFitted == Fit(scaler, allInput)
           allFeatures == Frame(InputFeatures.index, InputFeatures.columns,
                                Transform(allFitted, InputFeatures))
       IN  /\ fit_input = allInput
           /\ fitted_scaler = allFitted
           /\ pc \in Transformed => feature_df = allFeatures
           /\ pc \in Merged => normalized = Merge(meta_df, allFeatures)

\* A query every one of several rows satisfies; the run has returned.
C7_Witness ==
    /\ pc = "done"
    /\ samples # All
    /\ Selected = DOMAIN profiles.data
    /\ Len(profiles.data) > 1

\* C8: output is called once, with the merged table, the destination and
\* the two options, when a destination is given, and then nothing is
\* returned; it is not called when none is given, and then the merged
\* table is returned.  Before the end it has not been called.
C8_OutputIffDestination ==
    /\ pc = "done" =>
         IF output_args.output_file # "none"
         THEN /\ output_calls = << [df |-> normalized,
                                    output_filename |-> output_args.output_file,
                                    compression_options |-> output_args.compression_options,
                                    float_format |-> output_args.float_format] >>
              /\ returned = None
         ELSE /\ output_calls = <<>>
              /\ returned = normalized
    /\ pc # "done" => output_calls = <<>> /\ returned = Unbound

\* A run that has written its table with options.
C8_Witness ==
    /\ pc = "done"
    /\ Len(output_calls) = 1
    /\ output_calls[1].compression_options = "gzip"
    /\ output_calls[1].df.data # <<>>

\* C9: a fault ends normalize where it is raised, with nothing returned
\* and nothing written; a table is written or returned only by a run that
\* has fitted, transformed and merged without a fault.
C9_NoPartialResultsOnFault ==
    /\ fault # "none" =>
         /\ pc = "raised"
         /\ normalized = Unbound
         /\ returned = Unbound
         /\ output_calls = <<>>
    /\ (output_calls # <<>> \/ returned # Unbound) =>
         /\ fault = "none"
         /\ pc = "done"
         /\ fitted_scaler # Unbound
         /\ normalized = Merge(meta_df, feature_df)

\* normalize has ended on fit's fault, after both column selections.
C9_Witness ==
    /\ pc = "raised"
    /\ fault = "ValueError"
    /\ meta_df # Unbound
    /\ profiles.data # <<>>

Disjoint(a, b) == Range(a) \cap Range(b) = {}

\* C10, as stated: the columns of the output are the metadata list followed
\* by the feature list, each name as given, also when a name is in both.
C10_ColumnOrder ==
    pc \in Merged => normalized.columns = meta_features.list \o features.list

\* C10, amended: that holds when no name is in both lists; normalize does
\* not check it, and a name in both comes out as name_x and name_y.
C10_ColumnOrderWhenDisjoint ==
    pc \in Merged =>
        /\ Disjoint(meta_features.list, features.list)
             => normalized.columns = meta_features.list \o features.list
        /\ Len(normalized.columns) = Len(meta_features.list) + Len(features.list)
        /\ \A j \in DOMAIN meta_features.list :
             normalized.columns[j] =
                IF meta_features.list[j] \in Range(features.list)
                THEN meta_features.list[j] \o "_x" ELSE meta_features.list[j]

\* Disjoint lists, neither in the order of the table's columns.
C10_Witness ==
    /\ pc = "done"
    /\ meta_features.list = <<"Metadata_treatment", "Metadata_plate">>
    /\ features.list = <<"y", "x">>
    /\ normalized.data # <<>>

=============================================================================
